---- MODULE Spec2Model ----
(***************************************************************************)
(* Numeric attack/search engine of the weak-key lab: Fermat factorization, *)
(* primality testing, weak/strong RSA key synthesis, point-order discovery *)
(* and discrete-log solving (brute force and baby-step giant-step).        *)
(*                                                                         *)
(* Python integers are unbounded.  The RSA side therefore computes on     *)
(* naturals held as little-endian sequences of 15-bit limbs (BigNat), so   *)
(* that the 64-bit safety ceiling of the attack engine is a value the      *)
(* model can actually cross.  The elliptic-curve side works over small     *)
(* prime fields and uses native integers for the coordinates; only the     *)
(* field prime itself is a BigNat, because the field-size gate reads its   *)
(* bit length.                                                             *)
(***************************************************************************)
EXTENDS Integers, Sequences, FiniteSets, TLC

(***************************************************************************)
(* Unbounded naturals (Python int, non-negative part)                      *)
(***************************************************************************)
LIMB_BITS == 15
BASE == 2^LIMB_BITS

Zero == <<>>
One == <<1>>
Two == <<2>>

\* a native natural below 2^31 as a BigNat
RECURSIVE BFromInt(_)
BFromInt(n) == IF n = 0 THEN <<>> ELSE <<n % BASE>> \o BFromInt(n \div BASE)

\* the native value of a BigNat of at most two limbs
BToInt(s) == IF Len(s) = 0 THEN 0
             ELSE IF Len(s) = 1 THEN s[1]
             ELSE s[1] + BASE * s[2]

BSmall(s) == Len(s) <= 2

Limb(s, i) == IF i <= Len(s) THEN s[i] ELSE 0
Max2(x, y) == IF x >= y THEN x ELSE y

\* the arithmetic on limbs, one operation per arm, x the tuple of its operands:
\*   norm <<s>>               s without its leading zero limbs
\*   cmp <<a, b>>             -1, 0, 1 as a < b, a = b, a > b
\*   add, sub (a >= b), mul   <<a, b>>
\*   mullimb <<a, d>>         a times one limb d
\*   digit <<r, b, lo, hi>>   the largest d in lo..hi with d*b <= r
\*   divmod <<a, b>>          <<a // b, a % b>> for b > 0, by long division
\*   powmod <<b, e, m>>       pow(b, e, m) by square and multiply
\*   isqrt <<n>>              math.isqrt by Newton's iteration from above
\*   gcd <<a, b>>             math.gcd
\* and the loops of these from a position on (cmpfrom, addfrom, subfrom,
\* mullimbfrom, mulfrom, divmodfrom, powmodacc, isqrtfrom)
RECURSIVE PyNat(_, _)
PyNat(op, x) ==
    CASE op = "norm" ->
           IF x[1] = <<>> THEN <<>>
           ELSE IF x[1][Len(x[1])] = 0
           THEN PyNat("norm", <<SubSeq(x[1], 1, Len(x[1]) - 1)>>)
           ELSE x[1]
      [] op = "cmpfrom" ->
           LET a == x[1]  b == x[2]  i == x[3]
           IN  IF i = 0 THEN 0
               ELSE IF a[i] < b[i] THEN -1
               ELSE IF a[i] > b[i] THEN 1
               ELSE PyNat("cmpfrom", <<a, b, i - 1>>)
      [] op = "cmp" ->
           LET a == x[1]  b == x[2]
           IN  IF Len(a) < Len(b) THEN -1
               ELSE IF Len(a) > Len(b) THEN 1
               ELSE PyNat("cmpfrom", <<a, b, Len(a)>>)
      [] op = "addfrom" ->
           LET a == x[1]  b == x[2]  i == x[3]  carry == x[4]
               t == Limb(a, i) + Limb(b, i) + carry
           IN  IF i > Max2(Len(a), Len(b))
               THEN (IF carry = 0 THEN <<>> ELSE <<carry>>)
               ELSE <<t % BASE>> \o PyNat("addfrom", <<a, b, i + 1, t \div BASE>>)
      [] op = "add" ->
           LET a == x[1]  b == x[2]
           IN  IF BSmall(a) /\ BSmall(b) THEN BFromInt(BToInt(a) + BToInt(b))
               ELSE PyNat("addfrom", <<a, b, 1, 0>>)
      [] op = "subfrom" ->
           LET a == x[1]  b == x[2]  i == x[3]  borrow == x[4]
               t == a[i] - Limb(b, i) - borrow
           IN  IF i > Len(a) THEN <<>>
               ELSE IF t < 0 THEN <<t + BASE>> \o PyNat("subfrom", <<a, b, i + 1, 1>>)
               ELSE <<t>> \o PyNat("subfrom", <<a, b, i + 1, 0>>)
      [] op = "sub" ->
           LET a == x[1]  b == x[2]
           IN  IF BSmall(a) THEN BFromInt(BToInt(a) - BToInt(b))
               ELSE PyNat("norm", <<PyNat("subfrom", <<a, b, 1, 0>>)>>)
      [] op = "mullimbfrom" ->
           LET a == x[1]  d == x[2]  i == x[3]  carry == x[4]
               t == a[i] * d + carry
           IN  IF i > Len(a) THEN (IF carry = 0 THEN <<>> ELSE <<carry>>)
               ELSE <<t % BASE>> \o PyNat("mullimbfrom", <<a, d, i + 1, t \div BASE>>)
      [] op = "mullimb" ->
           IF x[2] = 0 THEN <<>> ELSE PyNat("mullimbfrom", <<x[1], x[2], 1, 0>>)
      [] op = "mulfrom" ->
           LET a == x[1]  b == x[2]  i == x[3]
               r == PyNat("mulfrom", <<a, b, i + 1>>)
           IN  IF i > Len(b) THEN <<>>
               ELSE PyNat("add", <<PyNat("mullimb", <<a, b[i]>>),
                                   IF r = <<>> THEN r ELSE <<0>> \o r>>)
      [] op = "mul" ->
           LET a == x[1]  b == x[2]
           IN  IF Len(a) <= 1 /\ Len(b) <= 1 THEN BFromInt(BToInt(a) * BToInt(b))
               ELSE IF a = <<>> \/ b = <<>> THEN <<>>
               ELSE PyNat("mulfrom", <<a, b, 1>>)
      [] op = "digit" ->
           LET r == x[1]  b == x[2]  lo == x[3]  hi == x[4]
               mid == (lo + hi + 1) \div 2
           IN  IF lo = hi THEN lo
               ELSE IF PyNat("cmp", <<PyNat("mullimb", <<b, mid>>), r>>) <= 0
               THEN PyNat("digit", <<r, b, mid, hi>>)
               ELSE PyNat("digit", <<r, b, lo, mid - 1>>)
      [] op = "divmodfrom" ->
           \* one limb of a at a time from the top; q is little-endian, not
           \* normalised
           LET a == x[1]  b == x[2]  i == x[3]  q == x[4]  r == x[5]
               r1 == PyNat("norm", <<<<a[i]>> \o r>>)
               d  == IF BSmall(r1) /\ BSmall(b) THEN BToInt(r1) \div BToInt(b)
                     ELSE IF PyNat("cmp", <<r1, b>>) = -1 THEN 0
                     ELSE PyNat("digit", <<r1, b, 0, BASE - 1>>)
               r2 == IF d = 0 THEN r1
                     ELSE PyNat("sub", <<r1, PyNat("mullimb", <<b, d>>)>>)
           IN  IF i = 0 THEN <<q, r>>
               ELSE PyNat("divmodfrom", <<a, b, i - 1, <<d>> \o q, r2>>)
      [] op = "divmod" ->
           LET a == x[1]  b == x[2]
               qr == PyNat("divmodfrom", <<a, b, Len(a), <<>>, <<>>>>)
           IN  IF BSmall(a) /\ BSmall(b)
               THEN <<BFromInt(BToInt(a) \div BToInt(b)), BFromInt(BToInt(a) % BToInt(b))>>
               ELSE IF PyNat("cmp", <<a, b>>) = -1 THEN <<Zero, a>>
               ELSE <<PyNat("norm", <<qr[1]>>), qr[2]>>
      [] op = "powmodacc" ->
           \* x = <<b, e, acc, m>>
           LET sq == PyNat("divmod", <<PyNat("mul", <<x[1], x[1]>>), x[4]>>)[2]
               half == PyNat("divmod", <<x[2], Two>>)
               acc == IF half[2] = <<>> THEN x[3]
                      ELSE PyNat("divmod", <<PyNat("mul", <<x[3], x[1]>>), x[4]>>)[2]
           IN  IF x[2] = <<>> THEN x[3]
               ELSE PyNat("powmodacc", <<sq, half[1], acc, x[4]>>)
      [] op = "powmod" ->
           PyNat("powmodacc", <<PyNat("divmod", <<x[1], x[3]>>)[2], x[2],
                                PyNat("divmod", <<One, x[3]>>)[2], x[3]>>)
      [] op = "isqrtfrom" ->
           LET n == x[1]  r == x[2]
               y == PyNat("divmod", <<PyNat("add", <<r, PyNat("divmod", <<n, r>>)[1]>>), Two>>)[1]
           IN  IF PyNat("cmp", <<y, r>>) = -1 THEN PyNat("isqrtfrom", <<n, y>>) ELSE r
      [] op = "gcd" ->
           IF x[2] = <<>> THEN x[1]
           ELSE PyNat("gcd", <<x[2], PyNat("divmod", <<x[1], x[2]>>)[2]>>)

BNorm(s) == PyNat("norm", <<s>>)

\* -1, 0, 1 as a < b, a = b, a > b
BCmp(a, b) == PyNat("cmp", <<a, b>>)
BLt(a, b) == BCmp(a, b) = -1
BLe(a, b) == BCmp(a, b) <= 0

BAdd(a, b) == PyNat("add", <<a, b>>)

\* a - b for a >= b
BSub(a, b) == PyNat("sub", <<a, b>>)

BMul(a, b) == PyNat("mul", <<a, b>>)

\* floor division and remainder, b > 0
BDivMod(a, b) == PyNat("divmod", <<a, b>>)
BDiv(a, b) == BDivMod(a, b)[1]
BMod(a, b) == BDivMod(a, b)[2]

BIsEven(a) == a = <<>> \/ a[1] % 2 = 0

RECURSIVE IntBitLength(_)
IntBitLength(n) == IF n = 0 THEN 0 ELSE 1 + IntBitLength(n \div 2)

\* int.bit_length()
BitLength(a) == IF a = <<>> THEN 0
                ELSE LIMB_BITS * (Len(a) - 1) + IntBitLength(a[Len(a)])

RECURSIVE BPow2(_)
BPow2(k) == IF k < LIMB_BITS THEN <<2^k>> ELSE <<0>> \o BPow2(k - LIMB_BITS)

\* pow(b, e, m) for e >= 0 and m > 0
BPowMod(b, e, m) == PyNat("powmod", <<b, e, m>>)

\* math.isqrt: the floor of the square root
BISqrt(n) == IF n = <<>> THEN <<>>
             ELSE PyNat("isqrtfrom", <<n, BPow2((BitLength(n) + 1) \div 2)>>)

\* math.gcd
BGcd(a, b) == PyNat("gcd", <<a, b>>)

\* abs(a - b)
BAbsDiff(a, b) == IF BLt(a, b) THEN BSub(b, a) ELSE BSub(a, b)

\* x | 1
BOr1(x) == IF BIsEven(x) THEN BAdd(x, One) ELSE x

\* x | (1 << k) for x < 2^(k+1)
BOrBit(x, k) == IF BLt(x, BPow2(k)) THEN BAdd(x, BPow2(k)) ELSE x

(***************************************************************************)
(* Signed integers (Python int): sign and magnitude, zero is never negative *)
(***************************************************************************)
ZOf(neg, mag) == [neg |-> neg /\ mag # <<>>, mag |-> mag]
ZNat(a) == ZOf(FALSE, a)

ZAdd(x, y) == IF x.neg = y.neg THEN ZOf(x.neg, BAdd(x.mag, y.mag))
              ELSE IF BLt(x.mag, y.mag) THEN ZOf(y.neg, BSub(y.mag, x.mag))
              ELSE ZOf(x.neg, BSub(x.mag, y.mag))

ZSub(x, y) == ZAdd(x, ZOf(~y.neg, y.mag))

\* q * y for a natural q
ZMulNat(q, y) == ZOf(y.neg, BMul(q, y.mag))

\* x % m for m > 0: the result has the sign of m
ZModOf(x, m, r) == IF x.neg /\ r # <<>> THEN BSub(m, r) ELSE r
ZModNat(x, m) == ZModOf(x, m, BMod(x.mag, m))

(***************************************************************************)
(* lab/rsa/fermat_factor.py                                                *)
(***************************************************************************)
MAX_N_BITS == 64

is_square(n) == LET r == BISqrt(n) IN BMul(r, r) = n

\* the while loop of fermat_factor from the state (a, steps)
RECURSIVE FermatLoop(_, _, _, _)
\* the candidate pair of one step: b2 = a*a - n is a square, b its root, and
\* (a - b)*(a + b) = n
FermatHit(n, a, b2, b) == is_square(b2) /\ BMul(BSub(a, b), BAdd(a, b)) = n

\* the loop body returning (a + b, a - b)
FermatStep_swapped(n, max_steps, a, steps, aa) ==
    IF BLe(n, aa) /\ FermatHit(n, a, BSub(aa, n), BISqrt(BSub(aa, n)))
    THEN [tag |-> "found", p |-> BAdd(a, BISqrt(BSub(aa, n))),
          q |-> BSub(a, BISqrt(BSub(aa, n))), steps |-> steps]
    ELSE FermatLoop(n, max_steps, BAdd(a, One), steps + 1)

FermatStep(n, max_steps, a, steps, aa) ==
    IF BLe(n, aa) /\ FermatHit(n, a, BSub(aa, n), BISqrt(BSub(aa, n)))
    THEN [tag |-> "found", p |-> BSub(a, BISqrt(BSub(aa, n))),
          q |-> BAdd(a, BISqrt(BSub(aa, n))), steps |-> steps]
    ELSE FermatLoop(n, max_steps, BAdd(a, One), steps + 1)

FermatLoop(n, max_steps, a, steps) ==
    IF ~(steps < max_steps) THEN [tag |-> "None"]
    ELSE FermatStep(n, max_steps, a, steps, BMul(a, a))

\* a = isqrt(n), one more if a*a < n
FermatStart(n, a0) == IF BLt(BMul(a0, a0), n) THEN BAdd(a0, One) ELSE a0

\* fermat_factor refusing from 64 bits on
fermat_factor_refuse_64(n, max_steps) ==
    IF BitLength(n) >= MAX_N_BITS THEN [tag |-> "ValueError"]
    ELSE FermatLoop(n, max_steps, FermatStart(n, BISqrt(n)), 0)

\* fermat_factor(n, max_steps): the returned tuple without its elapsed time,
\* None, or the ValueError of the size refusal
fermat_factor(n, max_steps) ==
    IF BitLength(n) > MAX_N_BITS THEN [tag |-> "ValueError"]
    ELSE FermatLoop(n, max_steps, FermatStart(n, BISqrt(n)), 0)

\* how often the body of the while loop ran in a call that ended with res
FermatIterations(res, max_steps) == IF res.tag = "found" THEN res.steps + 1 ELSE max_steps

\* what a call of fermat_factor executed: the math.isqrt(n) of line 13 and the
\* passes of the while loop, none of them when line 11 refuses
fermat_work(n, max_steps) ==
    IF BitLength(n) > MAX_N_BITS THEN [isqrt |-> 0, iterations |-> 0]
    ELSE [isqrt |-> 1,
          iterations |-> FermatIterations(
              FermatLoop(n, max_steps, FermatStart(n, BISqrt(n)), 0), max_steps)]

(***************************************************************************)
(* lab/rsa/weak_rsa_gen.py                                                 *)
(***************************************************************************)
MIN_BITS == 8
MAX_BITS == 64
E_DEFAULT == 65537

\* bounds of the model
MaxEnumBits == 8
MaxCloseness == 4
MaxSteps == 4

\* a draw above 2^32 for the bit lengths whose range is not enumerated
BigSample == {<<91, 0, 4>>}

\* the values secrets.randbits(bits) is drawn from
RandBits(bits) == IF bits <= MaxEnumBits THEN {BFromInt(r) : r \in 0 .. (2^bits - 1)}
                  ELSE BigSample

\* pow(2, p-1, p) == 1
fermat_test(p) == BPowMod(Two, BSub(p, One), p) = One

\* the values gen_prime(bits) can return
gen_prime(bits) == {p \in {BOr1(r) : r \in RandBits(bits)} : fermat_test(p)}

\* egcd(a, b) = <<x, y, g>> with a*x + b*y = g
RECURSIVE egcd(_, _)
\* egcd with the quotient left out of the back-substitution
egcd_no_quotient(a, b) ==
    IF b = <<>> THEN <<ZNat(One), ZNat(Zero), a>>
    ELSE LET r == egcd(b, BMod(a, b))
         IN  <<r[2], ZSub(r[1], r[2]), r[3]>>

egcd(a, b) ==
    IF b = <<>> THEN <<ZNat(One), ZNat(Zero), a>>
    ELSE LET r == egcd(b, BMod(a, b))
         IN  <<r[2], ZSub(r[1], ZMulNat(BDiv(a, b), r[2])), r[3]>>

\* the for loop of gen_weak_rsa from delta on
RECURSIVE WeakScan(_, _, _)
\* the body of the loop for q = p + delta, with phi = (p-1)*(q-1) and e
WeakTry(p, delta, closeness, q, phi, e) ==
    IF fermat_test(q) /\ BGcd(p, q) = One /\ BGcd(e, phi) = One
    THEN [tag |-> "key", p |-> p, q |-> q, n |-> BMul(p, q), e |-> e,
          d |-> ZModNat(egcd(e, phi)[1], phi)]
    ELSE WeakScan(p, delta + 1, closeness)

WeakPhi(p, q) == BMul(BSub(p, One), BSub(q, One))

WeakScan(p, delta, closeness) ==
    IF delta > closeness THEN [tag |-> "RuntimeError"]
    ELSE WeakTry(p, delta, closeness, BAdd(p, BFromInt(delta)),
                 WeakPhi(p, BAdd(p, BFromInt(delta))), BFromInt(E_DEFAULT))

\* gen_weak_rsa scanning from delta = 3
gen_weak_rsa_from_three(p, closeness) == WeakScan(p, 3, closeness)

\* gen_weak_rsa(bits, closeness) once gen_prime(bits) has returned p
gen_weak_rsa(p, closeness) == WeakScan(p, 1, closeness)

\* the test of the loop body on q = p + delta
Qualifies(p, delta) ==
    /\ fermat_test(BAdd(p, BFromInt(delta)))
    /\ BGcd(p, BAdd(p, BFromInt(delta))) = One
    /\ BGcd(BFromInt(E_DEFAULT), WeakPhi(p, BAdd(p, BFromInt(delta)))) = One

\* the small-prime loop of _is_probable_prime_64: "prime", "composite" or "pass"
SMALL_64 == <<2, 3, 5, 7, 11, 13, 17, 19, 23, 29>>

RECURSIVE SmallLoop64(_, _)
SmallLoop64(n, i) ==
    IF i > Len(SMALL_64) THEN "pass"
    ELSE IF n = BFromInt(SMALL_64[i]) THEN "prime"
    ELSE IF BMod(n, BFromInt(SMALL_64[i])) = <<>>
    THEN (IF n = BFromInt(SMALL_64[i]) THEN "prime" ELSE "composite")
    ELSE SmallLoop64(n, i + 1)

\* n - 1 = d * 2^s with d odd, as <<d, s>>, from <<d, s>>
RECURSIVE Decompose(_, _)
Decompose(d, s) == IF BIsEven(d) THEN Decompose(BDiv(d, Two), s + 1) ELSE <<d, s>>

\* for _ in range(k): x = (x*x) % n; if x == n-1: break -- TRUE on break,
\* FALSE when the loop runs out (the for-else)
RECURSIVE SquareLoop(_, _, _)
SquareStep(x2, n, k) == IF x2 = BSub(n, One) THEN TRUE ELSE SquareLoop(x2, n, k - 1)

SquareLoop(x, n, k) ==
    IF k <= 0 THEN FALSE
    ELSE SquareStep(BMod(BMul(x, x), n), n, k)

MR_BASES_64 == <<2, 3, 5, 7, 11, 13, 17>>

\* x = pow(a, d, n) is 1 or n-1, or reaches n-1 within s-1 squarings
WitnessPasses(n, s, x) == x = One \/ x = BSub(n, One) \/ SquareLoop(x, n, s - 1)

\* the witness loop of _is_probable_prime_64 from base number i on
RECURSIVE WitnessLoop64(_, _, _, _)
WitnessLoop64(n, d, s, i) ==
    IF i > Len(MR_BASES_64) THEN TRUE
    ELSE IF BMod(BFromInt(MR_BASES_64[i]), n) = <<>> THEN WitnessLoop64(n, d, s, i + 1)
    ELSE IF WitnessPasses(n, s, BPowMod(BFromInt(MR_BASES_64[i]), d, n))
    THEN WitnessLoop64(n, d, s, i + 1)
    ELSE FALSE

\* after the small-prime loop said small, with n - 1 = ds[1] * 2^ds[2]
AfterSmall64(n, small, ds) ==
    IF small # "pass" THEN small = "prime" ELSE WitnessLoop64(n, ds[1], ds[2], 1)

is_probable_prime_64(n) ==
    IF BLt(n, Two) THEN FALSE
    ELSE AfterSmall64(n, SmallLoop64(n, 1), Decompose(BSub(n, One), 0))

\* _rand_odd_with_bits(bits) on the draw x of secrets.randbits(bits)
rand_odd_with_bits(x, bits) == BOr1(BOrBit(x, bits - 1))

\* the values gen_prime_mr(bits) can return
gen_prime_mr(bits) ==
    {c \in {rand_odd_with_bits(x, bits) : x \in RandBits(bits)} : is_probable_prime_64(c)}

\* from r = egcd(a, m): u % m when g = 1, else the ValueError
InverseOf(r, m) == IF r[3] = One THEN [tag |-> "ok", v |-> ZModNat(r[1], m)]
                   ELSE [tag |-> "ValueError"]

\* _inv_mod(a, m): pow(a, -1, m), or the ValueError of a non-invertible a
inv_mod(a, m) == InverseOf(egcd(a, m), m)

\* the return of gen_strong_rsa with d = _inv_mod(e, phi)
GenStrongRsaKey(p, q, e, d) ==
    IF d.tag = "ValueError" THEN d
    ELSE [tag |-> "key", p |-> p, q |-> q, n |-> BMul(p, q), e |-> e, d |-> d.v]

\* the tests of the loop body on p, q and phi = (p-1)*(q-1)
GenStrongRsaChecks(p, q, min_gap, e, phi) ==
    IF p = q THEN [tag |-> "continue"]
    ELSE IF BLt(BAbsDiff(p, q), min_gap) THEN [tag |-> "continue"]
    ELSE IF BGcd(e, BSub(p, One)) # One \/ BGcd(e, BSub(q, One)) # One
            \/ BGcd(e, phi) # One
    THEN [tag |-> "continue"]
    ELSE GenStrongRsaKey(p, q, e, inv_mod(e, phi))

\* one pass of the while loop of weak_rsa_gen.gen_strong_rsa on the draws p, q:
\* the returned key, or "continue"
gen_strong_rsa_try(p, q, min_gap, e) ==
    GenStrongRsaChecks(p, q, min_gap, e, BMul(BSub(p, One), BSub(q, One)))

(***************************************************************************)
(* lab/rsa/strong_rsa_gen.py                                               *)
(***************************************************************************)
SMALL_PRIMES == <<3, 5, 7, 11, 13, 17, 19, 23, 29, 31, 37, 41, 43, 47,
                  53, 59, 61, 67, 71, 73, 79, 83, 89, 97, 101, 103, 107, 109, 113>>
MR_ROUNDS == 64

\* the loop of _trial_division from prime number i on
RECURSIVE TrialLoop(_, _)
TrialLoop(n, i) ==
    IF i > Len(SMALL_PRIMES) THEN TRUE
    ELSE IF BMod(n, BFromInt(SMALL_PRIMES[i])) = <<>> THEN n = BFromInt(SMALL_PRIMES[i])
    ELSE TrialLoop(n, i + 1)

trial_division(n) == TrialLoop(n, 1)

\* the draws a = secrets.randbelow(n - 3) + 2 of one round, all of [2, n-2]
\* while n is within the enumerated bit lengths, and its low end beyond
Witnesses(n) ==
    IF BitLength(n) <= MaxEnumBits + 1 THEN {BFromInt(a) : a \in 2 .. (BToInt(n) - 2)}
    ELSE {BFromInt(a) : a \in 2 .. 2^MaxEnumBits}

\* one round of _miller_rabin with the draw a: TRUE when the round goes on to
\* the next one, FALSE when it returns False
mr_round(n, d, s, a) == WitnessPasses(n, s, BPowMod(a, d, n))

\* the draws of W that let a round go on
MrPassing(n, ds, W) == {a \in W : mr_round(n, ds[1], ds[2], a)}

\* True when some draw passes (every round may draw it), False when some
\* draw fails
MrVerdicts(W, pass) ==
    (IF pass # {} THEN {"True"} ELSE {}) \cup (IF pass # W THEN {"False"} ELSE {})

MrOutcomes(n, ds, W) == MrVerdicts(W, MrPassing(n, ds, W))

\* what _miller_rabin(n, rounds) can return over the draws of its rounds:
\* a subset of {"True", "False", "ValueError"} (randbelow(0) raises)
miller_rabin(n, rounds) ==
    IF BLt(n, Two) THEN {"False"}
    ELSE IF n = Two THEN {"True"}
    ELSE IF BIsEven(n) THEN {"False"}
    ELSE IF ~trial_division(n) THEN {"False"}
    ELSE IF rounds <= 0 THEN {"True"}
    ELSE IF BLe(n, BFromInt(3)) THEN {"ValueError"}
    ELSE MrOutcomes(n, Decompose(BSub(n, One), 0), Witnesses(n))

\* _rand_odd_bits(bits) on the draw n of secrets.randbits(bits)
rand_odd_bits(n, bits) == BOr1(BOrBit(n, bits - 1))

\* the values _gen_prime(bits, rounds) can return
gen_prime_rounds(bits, rounds) ==
    {c \in {rand_odd_bits(x, bits) : x \in RandBits(bits)} : "True" \in miller_rabin(c, rounds)}

\* the values _gen_safe_prime(bits, rounds) can return (bits >= 3)
gen_safe_prime(bits, rounds) ==
    {p \in {BAdd(BMul(Two, r), One) : r \in gen_prime_rounds(bits - 1, rounds)} :
        BitLength(p) = bits /\ "True" \in miller_rabin(p, rounds)}

\* _inv_mod(a, m) of strong_rsa_gen.py: the inverse, or its ValueError
strong_inv_mod(a, m) == InverseOf(egcd(a, m), m)

\* the return of gen_strong_rsa with d = _inv_mod(e, phi), qinv = _inv_mod(q, p)
StrongRsaKey(p, q, e, min_gap_bits, phi, d, qinv) ==
    IF d.tag = "ValueError" \/ qinv.tag = "ValueError"
    THEN [tag |-> "ValueError"]
    ELSE [tag |-> "key", p |-> p, q |-> q, n |-> BMul(p, q), e |-> e, d |-> d.v,
          phi |-> phi, dp |-> BMod(d.v, BSub(p, One)),
          dq |-> BMod(d.v, BSub(q, One)), qinv |-> qinv.v,
          min_gap_bits_enforced |-> min_gap_bits # <<>>]

\* the tests of the loop body on p, q and phi = (p-1)*(q-1)
StrongRsaChecks(p, q, e, min_gap_bits, phi) ==
    IF p = q THEN [tag |-> "continue"]
    ELSE IF min_gap_bits # <<>> /\ BitLength(BAbsDiff(p, q)) < min_gap_bits[1]
    THEN [tag |-> "continue"]
    ELSE IF BGcd(e, BSub(p, One)) # One \/ BGcd(e, BSub(q, One)) # One
    THEN [tag |-> "continue"]
    ELSE IF BGcd(e, phi) # One THEN [tag |-> "continue"]
    ELSE StrongRsaKey(p, q, e, min_gap_bits, phi,
                      strong_inv_mod(e, phi), strong_inv_mod(q, p))

\* one pass of the while loop of strong_rsa_gen.gen_strong_rsa on the draws
\* p, q; min_gap_bits is <<>> for None and <<g>> for g
strong_rsa_try(p, q, e, min_gap_bits) ==
    StrongRsaChecks(p, q, e, min_gap_bits, BMul(BSub(p, One), BSub(q, One)))

(***************************************************************************)
(* Elliptic-curve arithmetic substrate (the ecdsa collaborator): points of *)
(* y^2 = x^3 + a*x + b over the prime field of a curve [p, a, b].  A point  *)
(* is INFINITY or <<x, y>>; the group law and exact equality are the        *)
(* collaborator's contract.                                                *)
(***************************************************************************)
INFINITY == <<>>

FieldP(curve) == BToInt(curve.p)

\* the points of the curve, INFINITY included
PointsOf(curve) ==
    LET p == FieldP(curve)
    IN  {INFINITY} \cup
        {P \in (0 .. (p - 1)) \X (0 .. (p - 1)) :
            (P[2] * P[2]) % p = (P[1] * P[1] * P[1] + curve.a * P[1] + curve.b) % p}

\* the extended Euclidean algorithm on the remainders (r0, r1) with the
\* coefficients (t0, t1) of v: t0 when r1 = 0
RECURSIVE InverseLoop(_, _, _, _)
InverseLoop(r0, r1, t0, t1) ==
    IF r1 = 0 THEN t0
    ELSE InverseLoop(r1, r0 % r1, t1, t0 - (r0 \div r1) * t1)

\* the inverse of v modulo the field prime, for v not a multiple of p
InverseMod(v, p) == InverseLoop(p, v % p, 0, 1) % p

PointDouble(curve, P) ==
    IF P = INFINITY THEN INFINITY
    ELSE IF P[2] = 0 THEN INFINITY
    ELSE LET p == FieldP(curve)
             l == (((3 * ((P[1] * P[1]) % p) + curve.a) % p) * InverseMod(2 * P[2], p)) % p
             x3 == (l * l - 2 * P[1]) % p
         IN  <<x3, (l * ((P[1] - x3) % p) - P[2]) % p>>

\* P + Q
PointAdd(curve, P, Q) ==
    IF Q = INFINITY THEN P
    ELSE IF P = INFINITY THEN Q
    ELSE LET p == FieldP(curve)
         IN  IF P[1] = Q[1]
             THEN (IF (P[2] + Q[2]) % p = 0 THEN INFINITY ELSE PointDouble(curve, P))
             ELSE LET l == (((Q[2] - P[2]) % p) * InverseMod(Q[1] - P[1], p)) % p
                      x3 == (l * l - P[1] - Q[1]) % p
                  IN  <<x3, (l * ((P[1] - x3) % p) - P[2]) % p>>

PointNeg(curve, P) == IF P = INFINITY THEN INFINITY ELSE <<P[1], (FieldP(curve) - P[2]) % FieldP(curve)>>

\* P - Q
PointSub(curve, P, Q) == PointAdd(curve, P, PointNeg(curve, Q))

\* k * P for k >= 0, by double and add
RECURSIVE PointMul(_, _, _)
PointMul(curve, k, P) ==
    IF k = 0 THEN INFINITY
    ELSE LET h == PointDouble(curve, PointMul(curve, k \div 2, P))
         IN  IF k % 2 = 1 THEN PointAdd(curve, h, P) ELSE h

(***************************************************************************)
(* lab/ecc/make_ecc_pem.py                                                 *)
(***************************************************************************)
MAX_FIELD_BITS == 64
BSGS_MAX_BOUND == 200000

\* _check_field_size(curve_fp) raises SafetyError
field_too_large(curve) == BitLength(curve.p) > MAX_FIELD_BITS

\* the while loop of find_point_order from the state (R, steps)
RECURSIVE OrderLoop(_, _, _, _, _)
OrderLoop(curve, P, max_search, R, steps) ==
    IF ~(steps <= max_search) THEN [tag |-> "None", steps |-> steps - 1]
    ELSE IF R = INFINITY THEN [tag |-> "found", order |-> steps, steps |-> steps]
    ELSE OrderLoop(curve, P, max_search, PointAdd(curve, R, P), steps + 1)

\* find_point_order with the loop test steps < max_search
find_point_order_strict(curve, P, max_search) ==
    IF field_too_large(curve) THEN [tag |-> "SafetyError", steps |-> 0]
    ELSE IF P = INFINITY THEN [tag |-> "found", order |-> 1, steps |-> 0]
    ELSE OrderLoop(curve, P, max_search - 1, P, 1)

\* find_point_order(curve_fp, P, max_search) without the elapsed time
find_point_order(curve, P, max_search) ==
    IF field_too_large(curve) THEN [tag |-> "SafetyError", steps |-> 0]
    ELSE IF P = INFINITY THEN [tag |-> "found", order |-> 1, steps |-> 0]
    ELSE OrderLoop(curve, P, max_search, P, 1)

\* the for loop of brute_force_dlog from the state (k, R, steps), then the
\* final check
RECURSIVE BruteLoop(_, _, _, _, _, _, _)
BruteLoop(curve, G, Q, order_bound, k, R, steps) ==
    IF k >= order_bound
    THEN (IF R = Q THEN [tag |-> "found", k |-> order_bound, steps |-> steps]
          ELSE [tag |-> "None", steps |-> steps])
    ELSE IF R = Q THEN [tag |-> "found", k |-> k, steps |-> steps]
    ELSE BruteLoop(curve, G, Q, order_bound, k + 1, PointAdd(curve, R, G), steps + 1)

\* brute_force_dlog without the check after the loop
brute_force_dlog_no_final(curve, G, Q, order_bound) ==
    IF field_too_large(curve) THEN [tag |-> "SafetyError", steps |-> 0]
    ELSE LET r == BruteLoop(curve, G, Q, order_bound, 0, INFINITY, 0)
         IN  IF r.tag = "found" /\ r.k = order_bound
             THEN [tag |-> "None", steps |-> r.steps]
             ELSE r

\* brute_force_dlog(curve_fp, G, Q, order_bound) without the elapsed time
brute_force_dlog(curve, G, Q, order_bound) ==
    IF field_too_large(curve) THEN [tag |-> "SafetyError", steps |-> 0]
    ELSE BruteLoop(curve, G, Q, order_bound, 0, INFINITY, 0)

\* int(math.ceil(math.sqrt(n))) for 0 <= n <= 200000, where the float square
\* root rounds to no integer but that of a perfect square
CeilSqrt(n) == CHOOSE m \in 0 .. n : m * m >= n /\ (m = 0 \/ (m - 1) * (m - 1) < n)

\* the dict key of a point: None for INFINITY, else (x, y)
Key(P) == P

\* d[k] = v
DictPut(d, k, v) == [x \in (DOMAIN d) \cup {k} |-> IF x = k THEN v ELSE d[x]]

EmptyDict == [x \in {} |-> 0]

\* Long loops are run a stretch of passes at a time, so that the depth of
\* the evaluation does not grow with the number of passes.
Stretch(n) == IF n < 32 THEN n ELSE 32

\* n passes of the baby-step loop from the state st = <<j, R, baby_table>>
RECURSIVE BabySteps(_, _, _, _)
BabySteps(curve, G, n, st) ==
    IF n = 0 THEN st
    ELSE BabySteps(curve, G, n - 1,
                   <<st[1] + 1, PointAdd(curve, st[2], G), DictPut(st[3], Key(st[2]), st[1])>>)

\* the baby-step loop of bsgs_dlog from the state st = <<j, R, baby_table>>
RECURSIVE BabyFrom(_, _, _, _)
BabyFrom(curve, G, m, st) ==
    IF st[1] >= m THEN st[3]
    ELSE BabyFrom(curve, G, m, BabySteps(curve, G, Stretch(m - st[1]), st))

\* the baby-step loop of bsgs_dlog from the state (j, R, baby_table)
BabyLoop(curve, G, m, j, R, baby_table) == BabyFrom(curve, G, m, <<j, R, baby_table>>)

\* up to n passes of the giant-step loop that find no key, from the state
\* st = <<i, S, steps>>
RECURSIVE GiantSteps(_, _, _, _, _, _)
GiantSteps(curve, baby_table, factor, m, n, st) ==
    IF n = 0 \/ st[1] > m \/ Key(st[2]) \in DOMAIN baby_table THEN st
    ELSE GiantSteps(curve, baby_table, factor, m, n - 1,
                    <<st[1] + 1, PointSub(curve, st[2], factor), st[3] + 1>>)

\* the giant-step loop of bsgs_dlog from the state st = <<i, S, steps>>
RECURSIVE GiantFrom(_, _, _, _, _)
GiantFrom(curve, baby_table, factor, m, st) ==
    IF st[1] > m
    THEN [tag |-> "None", memory |-> Cardinality(DOMAIN baby_table), steps |-> st[3]]
    ELSE IF Key(st[2]) \in DOMAIN baby_table
    THEN [tag |-> "found", k |-> st[1] * m + baby_table[Key(st[2])],
          j |-> baby_table[Key(st[2])], i |-> st[1],
          memory |-> Cardinality(DOMAIN baby_table), steps |-> st[3] + st[1]]
    ELSE GiantFrom(curve, baby_table, factor, m,
                   GiantSteps(curve, baby_table, factor, m, 32, st))

\* the giant-step loop of bsgs_dlog from the state (i, S, steps)
GiantLoop(curve, baby_table, factor, m, i, S, steps) ==
    GiantFrom(curve, baby_table, factor, m, <<i, S, steps>>)

\* bsgs_dlog with the giant stride G in place of m*G
bsgs_dlog_unit_stride(curve, G, Q, order_bound) ==
    IF field_too_large(curve) THEN [tag |-> "SafetyError", steps |-> 0, why |-> "field"]
    ELSE IF order_bound > BSGS_MAX_BOUND
    THEN [tag |-> "SafetyError", steps |-> 0, why |-> "order_bound"]
    ELSE LET m == CeilSqrt(order_bound)
             baby_table == BabyLoop(curve, G, m, 0, INFINITY, EmptyDict)
         IN  GiantLoop(curve, baby_table, G, m, 0, Q, 0)

\* bsgs_dlog with the ceiling on order_bound tested before the field size
bsgs_dlog_bound_first(curve, G, Q, order_bound) ==
    IF order_bound > BSGS_MAX_BOUND
    THEN [tag |-> "SafetyError", steps |-> 0, why |-> "order_bound"]
    ELSE IF field_too_large(curve) THEN [tag |-> "SafetyError", steps |-> 0, why |-> "field"]
    ELSE LET m == CeilSqrt(order_bound)
             baby_table == BabyLoop(curve, G, m, 0, INFINITY, EmptyDict)
             factor == PointMul(curve, m, G)
         IN  GiantLoop(curve, baby_table, factor, m, 0, Q, 0)

\* bsgs_dlog(curve_fp, G, Q, order_bound) without the elapsed time; the hit
\* also records the i and j that k = i*m + j was formed from
bsgs_dlog(curve, G, Q, order_bound) ==
    IF field_too_large(curve) THEN [tag |-> "SafetyError", steps |-> 0, why |-> "field"]
    ELSE IF order_bound > BSGS_MAX_BOUND
    THEN [tag |-> "SafetyError", steps |-> 0, why |-> "order_bound"]
    ELSE LET m == CeilSqrt(order_bound)
             baby_table == BabyLoop(curve, G, m, 0, INFINITY, EmptyDict)
             factor == PointMul(curve, m, G)
         IN  GiantLoop(curve, baby_table, factor, m, 0, Q, 0)

BF_MAX_ORDER == 100000

\* out["messages"].append(msg): the messages are modelled by their kind
Say(out, msg) == [out EXCEPT !.messages = Append(@, msg)]

\* out[key] = val
Put(out, key, val) == (key :> val) @@ out

\* stage 3 once bsgs_dlog returned b
AnalyzeWithBsgs(out, b) ==
    Say(Put(out, "bsgs", b), IF b.tag = "found" THEN "bsgs_succeeded" ELSE "bsgs_failed")

\* stage 3 of analyze_point: BSGS within dlog_bound, or the skip message
AnalyzeBsgs(out, curve, G, Q, dlog_bound) ==
    IF dlog_bound <= BSGS_MAX_BOUND
    THEN AnalyzeWithBsgs(out, bsgs_dlog(curve, G, Q, dlog_bound))
    ELSE Say(out, "bsgs_skipped")

\* stage 2 going on to BSGS after a brute force that found k
AnalyzeAfterBrute_no_return(out, bf, curve, G, Q, dlog_bound) ==
    IF bf.tag = "found"
    THEN AnalyzeBsgs(Say(Put(out, "bruteforce", bf), "bf_succeeded"), curve, G, Q, dlog_bound)
    ELSE AnalyzeBsgs(Say(Put(out, "bruteforce", bf), "bf_failed"), curve, G, Q, dlog_bound)

\* stage 2 once brute_force_dlog returned bf: return on success, else go on
AnalyzeAfterBrute(out, bf, curve, G, Q, dlog_bound) ==
    IF bf.tag = "found"
    THEN Say(Put(out, "bruteforce", bf), "bf_succeeded")
    ELSE AnalyzeBsgs(Say(Put(out, "bruteforce", bf), "bf_failed"), curve, G, Q, dlog_bound)

\* stage 2 of analyze_point on the result os of the order search
AnalyzeBrute(out, os, curve, G, Q, dlog_bound) ==
    IF os.tag = "found" /\ os.order <= BF_MAX_ORDER
    THEN AnalyzeAfterBrute(out, brute_force_dlog(curve, G, Q, os.order),
                           curve, G, Q, dlog_bound)
    ELSE AnalyzeBsgs(Say(out, "bf_skipped"), curve, G, Q, dlog_bound)

\* stage 1 once find_point_order returned os
AnalyzeOrder(os, curve, G, Q, dlog_bound) ==
    AnalyzeBrute(
        Say(Put([status |-> "ok", messages |-> <<>>], "order_search", os),
            IF os.tag = "found" THEN "order_found" ELSE "order_not_found"),
        os, curve, G, Q, dlog_bound)

\* analyze_point(curve_fp, G, Q, order_search, dlog_bound): the report, or
\* the SafetyError of the field-size gate
analyze_point(curve, G, Q, order_search, dlog_bound) ==
    IF field_too_large(curve) THEN [tag |-> "SafetyError", steps |-> 0]
    ELSE [tag |-> "report",
          out |-> AnalyzeOrder(find_point_order(curve, G, order_search),
                               curve, G, Q, dlog_bound)]

(***************************************************************************)
(* lab/ecc/weak_ecc_gen.py                                                 *)
(***************************************************************************)
\* the for loop of brute_force_d_mod_r from k on; steps is k + 1 at the test
RECURSIVE ModRLoop(_, _, _, _, _)
ModRLoop(curve, G, Q, r_limit, k) ==
    IF k >= r_limit THEN [tag |-> "None", steps |-> k]
    ELSE IF PointMul(curve, k, G) = Q THEN [tag |-> "found", k |-> k, steps |-> k + 1]
    ELSE ModRLoop(curve, G, Q, r_limit, k + 1)

\* brute_force_d_mod_r(curve_fp, G_point, Q_point, r_limit) without the
\* elapsed time; it has no field-size gate
brute_force_d_mod_r(curve, G, Q, r_limit) == ModRLoop(curve, G, Q, r_limit, 0)

\* up to n passes of the for loop of _order_naive that do not return, from
\* the state st = <<r, R, adds>>; adds counts the executions of R = R + P
RECURSIVE OrderNaiveSteps(_, _, _, _, _)
OrderNaiveSteps(curve, P, max_steps, n, st) ==
    IF n = 0 \/ st[1] > max_steps \/ st[2] = INFINITY THEN st
    ELSE OrderNaiveSteps(curve, P, max_steps, n - 1,
                         <<st[1] + 1, PointAdd(curve, st[2], P), st[3] + 1>>)

\* the loop from the state st to the state it leaves by the range or by
\* return r, the wall-clock test never firing
RECURSIVE OrderNaiveFrom(_, _, _, _)
OrderNaiveFrom(curve, P, max_steps, st) ==
    IF st[1] > max_steps \/ st[2] = INFINITY THEN st
    ELSE OrderNaiveFrom(curve, P, max_steps, OrderNaiveSteps(curve, P, max_steps, 32, st))

\* what the loop returns when it ends in the state st: None after the range,
\* r on the identity; and None from the wall-clock test of each pass before
OrderNaiveOutcomes(max_steps, st) ==
    {IF st[1] > max_steps THEN [tag |-> "None", adds |-> st[3]]
     ELSE [tag |-> "found", order |-> st[1], adds |-> st[3]]}
    \cup {[tag |-> "None", adds |-> k] : k \in 0 .. (st[3] - 1)}

\* the for loop of _order_naive from the state (r, R): every value it can
\* return, with the additions made
OrderNaiveLoop(curve, P, max_steps, r, R) ==
    OrderNaiveOutcomes(max_steps, OrderNaiveFrom(curve, P, max_steps, <<r, R, 0>>))

\* _order_naive counting from 0
order_naive_from_zero(curve, P, max_steps) ==
    IF P = INFINITY THEN {[tag |-> "found", order |-> 1, adds |-> 0]}
    ELSE OrderNaiveLoop(curve, P, max_steps, 0, P)

\* _order_naive(P, max_steps, max_seconds)
order_naive(curve, P, max_steps) ==
    IF P = INFINITY THEN {[tag |-> "found", order |-> 1, adds |-> 0]}
    ELSE OrderNaiveLoop(curve, P, max_steps, 1, P)

\* _is_probable_prime(n): trial division by the small primes, then
\* Miller-Rabin to the bases 2, 7, 61
TOY_SMALL_PRIMES == <<2, 3, 5, 7, 11, 13, 17, 19, 23, 29>>
TOY_MR_BASES == <<2, 7, 61>>

\* pow(a, d, n)
RECURSIVE ToyPowMod(_, _, _)
ToyPowMod(a, d, n) ==
    IF d = 0 THEN 1 % n
    ELSE LET h == ToyPowMod(a, d \div 2, n)
         IN  IF d % 2 = 1 THEN (((h * h) % n) * (a % n)) % n ELSE (h * h) % n

\* the inner for loop: up to k squarings of x; TRUE when one gave n - 1
RECURSIVE ToySquarings(_, _, _)
ToySquarings(x, k, n) ==
    IF k = 0 THEN FALSE
    ELSE IF (x * x) % n = n - 1 THEN TRUE
    ELSE ToySquarings((x * x) % n, k - 1, n)

\* n - 1 = d * 2^s with d odd, as <<d, s>>
RECURSIVE ToySplit(_, _)
ToySplit(d, s) == IF d % 2 = 0 THEN ToySplit(d \div 2, s + 1) ELSE <<d, s>>

\* the pass of the base loop for the base a with x = pow(a, d, n)
ToyBasePasses(x, s, n) == x = 1 \/ x = n - 1 \/ ToySquarings(x, s - 1, n)

\* the Miller-Rabin part on n - 1 = ds[1] * 2^ds[2]
ToyMillerRabin(n, ds) ==
    \A i \in 1 .. Len(TOY_MR_BASES) :
       (TOY_MR_BASES[i] % n = 0) \/ ToyBasePasses(ToyPowMod(TOY_MR_BASES[i], ds[1], n), ds[2], n)

\* the loop over the small primes from index i on
RECURSIVE ToySmallLoop(_, _)
ToySmallLoop(n, i) ==
    IF i > Len(TOY_SMALL_PRIMES) THEN ToyMillerRabin(n, ToySplit(n - 1, 0))
    ELSE IF n = TOY_SMALL_PRIMES[i] THEN TRUE
    ELSE IF n % TOY_SMALL_PRIMES[i] = 0 THEN FALSE
    ELSE ToySmallLoop(n, i + 1)

is_probable_prime(n) == IF n < 2 THEN FALSE ELSE ToySmallLoop(n, 1)

\* make_toy_curve_and_key: the field, the curve and the budgets
TOY_P == 40961
TOY_A == 1
TOY_B == 1
MAX_TRIES == 2000
RAND_POINT_TRIES == 4
ToyCurve == [p |-> BFromInt(TOY_P), a |-> TOY_A, b |-> TOY_B]

\* presets.get(difficulty, presets["medium"]) as <<lo, hi>>
presets(difficulty) ==
    IF difficulty = "easy" THEN <<20, 120>>
    ELSE IF difficulty = "hard" THEN <<1200, 4000>>
    ELSE <<200, 900>>

\* an optional integer argument: <<>> for None, <<v>> for v
Override(arg, default) == IF arg = <<>> THEN default ELSE arg[1]

\* PER_TRY_STEPS = max(hi + 100, 600)
PER_TRY_STEPS(hi) == IF hi + 100 > 600 THEN hi + 100 ELSE 600

\* the abscissas secrets.randbelow(p - 1) + 1 is taken to draw: two with no
\* point above them, and points of the orders 1846, 1562, 781, 286, 71, 2,
\* 11 and 22
ToyXs == {1, 2, 4, 9, 38, 127, 167, 3322, 3992, 5259}

\* rhs = (x*x*x + a*x + b) % p
ToyRhs(x) == (((x * x) % TOY_P) * x + TOY_A * x + TOY_B) % TOY_P

\* numbertheory.square_root_mod_prime(rhs, p): the roots it can return for
\* the drawn abscissas; none when it raises
ToyRoots == [x \in ToyXs |-> {y \in 0 .. (TOY_P - 1) : (y * y) % TOY_P = ToyRhs(x)}]

\* the (None, None) of _rand_point_on_curve
NoPoint == <<"None">>

\* _rand_point_on_curve(curve, p, max_tries): every (x, y) it can return, and
\* None when max_tries draws in a row had no square root
RECURSIVE rand_point_on_curve(_)
rand_point_on_curve(max_tries) ==
    IF max_tries = 0 THEN {NoPoint}
    ELSE UNION {IF ToyRoots[x] = {} THEN rand_point_on_curve(max_tries - 1)
                ELSE {<<x, y>> : y \in ToyRoots[x]}
                     \cup {<<x, (TOY_P - y) % TOY_P>> : y \in ToyRoots[x]} : x \in ToyXs}

\* the values secrets.randbelow(n) is taken to return, for n >= 1
RandBelow(n) == {0, n \div 2, n - 1}

\* the band test of the loop with the floor left out
InBand_no_floor(r, lo, hi) == ~(r > hi)

\* not (r < lo or r > hi)
InBand(r, lo, hi) == ~(r < lo \/ r > hi)

\* the returned dict for G = P of order r, the secret d and Q = d * P;
\* int(Q.x()) fails on the identity
ToyRecord(P, r, prime, d, Q) ==
    IF Q = INFINITY THEN [tag |-> "AttributeError"]
    ELSE [tag |-> "key", p |-> TOY_P, a |-> TOY_A, b |-> TOY_B, Gx |-> P[1], Gy |-> P[2],
          r |-> r, prime |-> prime, d |-> d, Qx |-> Q[1], Qy |-> Q[2]]

\* the loop body once _order_naive returned o for the point P: the dicts it
\* can return, or "continue"
ToyAccept(P, o, lo, hi, prefer_prime) ==
    IF o.tag = "None" THEN {[tag |-> "continue"]}
    ELSE IF ~InBand(o.order, lo, hi) THEN {[tag |-> "continue"]}
    ELSE IF prefer_prime /\ ~is_probable_prime(o.order) THEN {[tag |-> "continue"]}
    ELSE IF o.order - 1 < 1 THEN {[tag |-> "ValueError"]}
    ELSE {ToyRecord(P, o.order, prefer_prime, k + 1, PointMul(ToyCurve, k + 1, P)) :
             k \in RandBelow(o.order - 1)}

\* the point of the curve at (x, y), as ellipticcurve.Point accepts it
OnToyCurve(P) == (P[2] * P[2]) % TOY_P = ToyRhs(P[1])

\* the bands (lo, hi) and the caps PER_TRY_STEPS of the calls that are made
ToyDifficulties == {"easy", "medium", "hard", "extreme"}
ToyMinR == {<<>>, <<2>>}
ToyMaxR == {<<>>, <<30>>}
ToyBands ==
    {<<Override(min_r, presets(d)[1]), Override(max_r, presets(d)[2])>> :
        d \in ToyDifficulties, min_r \in ToyMinR, max_r \in ToyMaxR}
ToyCaps == {PER_TRY_STEPS(b[2]) : b \in ToyBands}

\* _order_naive(P, max_steps=PER_TRY_STEPS, max_seconds=PER_TRY_SECONDS) on
\* the points that can be drawn, computed once
ToyOrderTable ==
    [P \in rand_point_on_curve(RAND_POINT_TRIES) \ {NoPoint}, max_steps \in ToyCaps |->
        order_naive(ToyCurve, P, max_steps)]

\* one pass of the while loop once _rand_point_on_curve returned P
ToyPass(P, lo, hi, prefer_prime) ==
    IF P = NoPoint THEN {[tag |-> "continue"]}
    ELSE IF ~OnToyCurve(P) THEN {[tag |-> "continue"]}
    ELSE UNION {ToyAccept(P, o, lo, hi, prefer_prime) :
                   o \in ToyOrderTable[P, PER_TRY_STEPS(hi)]}

\* the outcomes of one pass for each band, computed once
ToyPassTable ==
    [b \in ToyBands, prefer_prime \in BOOLEAN |->
        UNION {ToyPass(P, b[1], b[2], prefer_prime) :
                  P \in rand_point_on_curve(RAND_POINT_TRIES)}]

\* the while condition without the cap on tries
ToyLoopGoesOn_no_cap(tries, expired) == ~expired

\* tries < MAX_TRIES and time.time() < OVERALL_DEADLINE
ToyLoopGoesOn(tries, expired) == tries < MAX_TRIES /\ ~expired

VARIABLES
    rsa,      \* the key synthesizer call: its arguments, loop state and result
    attack,   \* the Fermat attack on the synthesized modulus
    ec,       \* the elliptic-curve calls: their arguments and results
    oracle    \* the primality oracle call: its argument and verdict

vars == <<rsa, attack, ec, oracle>>

Idle == [status |-> "idle"]
NotRun == [tag |-> "notrun"]

Init == rsa = Idle /\ attack = Idle /\ ec = Idle /\ oracle = Idle

\* more bounds of the model
MaxGapBits == 6
MaxTries == 1
MinHalfBits == 6
MaxHalfBits == 6

WeakBits == (MIN_BITS .. MaxEnumBits) \cup {MAX_BITS}
StrongBits == (MIN_BITS - 1) .. MaxEnumBits
Exponents == {BFromInt(3), BFromInt(E_DEFAULT)}

\* the call record once gen_weak_rsa returned or raised r
WeakCallDone(bits, closeness, r) ==
    [fn |-> "gen_weak_rsa", bits |-> bits, closeness |-> closeness,
     status |-> IF r.tag = "key" THEN "returned" ELSE "raised", ret |-> r]

\* gen_weak_rsa(bits, closeness): the whole call; draw is the p that
\* gen_prime gave it
CallGenWeakRsa ==
    /\ rsa.status = "idle"
    /\ \E bits \in WeakBits, closeness \in 0 .. MaxCloseness :
         \E p \in gen_prime(bits) :
            rsa' = [draw |-> p] @@ WeakCallDone(bits, closeness, gen_weak_rsa(p, closeness))
    /\ UNCHANGED <<attack, ec, oracle>>

\* weak_rsa_gen.gen_strong_rsa(bits, min_gap, e, max_tries) up to its loop
GenStrongRsaCall ==
    /\ rsa.status = "idle"
    /\ \E bits \in StrongBits, e \in Exponents, max_tries \in 0 .. MaxTries :
         \E min_gap \in {Zero} \cup {BPow2(g) : g \in 0 .. MaxGapBits} :
            LET args == [fn |-> "gen_strong_rsa", bits |-> bits, min_gap |-> min_gap,
                         e |-> e]
            IN  rsa' = IF ~(MIN_BITS <= bits /\ bits <= MAX_BITS)
                       THEN args @@ [status |-> "raised", ret |-> [tag |-> "AssertionError"]]
                       ELSE IF BLt(min_gap, One)
                       THEN args @@ [status |-> "raised", ret |-> [tag |-> "ValueError"]]
                       ELSE args @@ [status |-> "running", max_tries |-> max_tries,
                                     tries |-> 0]
    /\ UNCHANGED <<attack, ec, oracle>>

Args(r) == [fn |-> r.fn, bits |-> r.bits, min_gap |-> r.min_gap, e |-> r.e]

\* gen_prime_mr(bits), computed once for the bit lengths the calls use
GenPrimeMrTable == [b \in MIN_BITS .. MaxEnumBits |-> gen_prime_mr(b)]

\* the call record after a pass of the loop that gave r
GenStrongRsaAfter(r) ==
    IF r.tag = "continue" THEN [rsa EXCEPT !.tries = rsa.tries + 1]
    ELSE Args(rsa) @@ [status |-> IF r.tag = "key" THEN "returned" ELSE "raised", ret |-> r]

\* one iteration of its while loop
GenStrongRsaTry ==
    /\ rsa.status = "running"
    /\ rsa.fn = "gen_strong_rsa"
    /\ rsa.tries < rsa.max_tries
    /\ \E p \in GenPrimeMrTable[rsa.bits], q \in GenPrimeMrTable[rsa.bits] :
         rsa' = GenStrongRsaAfter(gen_strong_rsa_try(p, q, rsa.min_gap, rsa.e))
    /\ UNCHANGED <<attack, ec, oracle>>

\* the loop ran max_tries times
GenStrongRsaExhausted ==
    /\ rsa.status = "running"
    /\ rsa.fn = "gen_strong_rsa"
    /\ ~(rsa.tries < rsa.max_tries)
    /\ rsa' = Args(rsa) @@ [status |-> "raised", ret |-> [tag |-> "RuntimeError"]]
    /\ UNCHANGED <<attack, ec, oracle>>

\* strong_rsa_gen.gen_strong_rsa(modulus_bits, e, strong_prime, min_gap_bits)
\* up to its loop
StrongGenCall ==
    /\ rsa.status = "idle"
    /\ \E modulus_bits \in (2 * MinHalfBits) .. (2 * MaxHalfBits + 1), e \in Exponents,
          strong_prime \in BOOLEAN :
         \E min_gap_bits \in {<<>>} \cup {<<g>> : g \in 0 .. MaxGapBits + 1} :
            LET args == [fn |-> "strong_rsa_gen", modulus_bits |-> modulus_bits, e |-> e,
                         strong_prime |-> strong_prime, min_gap_bits |-> min_gap_bits]
            IN  rsa' = IF modulus_bits % 2 # 0
                       THEN args @@ [status |-> "raised", ret |-> [tag |-> "ValueError"]]
                       ELSE args @@ [status |-> "running"]
    /\ UNCHANGED <<attack, ec, oracle>>

\* gen(half, mr_rounds) of strong_rsa_gen.gen_strong_rsa
StrongGenTable ==
    [half \in MinHalfBits .. MaxHalfBits, strong_prime \in BOOLEAN |->
        IF strong_prime THEN gen_safe_prime(half, MR_ROUNDS)
        ELSE gen_prime_rounds(half, MR_ROUNDS)]

StrongGen(half, strong_prime) == StrongGenTable[half, strong_prime]

\* the call record after a pass of the loop that gave r
StrongGenAfter(r) ==
    IF r.tag = "continue" THEN rsa
    ELSE [rsa EXCEPT !.status = IF r.tag = "key" THEN "returned" ELSE "raised"] @@ [ret |-> r]

\* one iteration of its while True loop: it returns, or goes round again
StrongGenTry ==
    /\ rsa.status = "running"
    /\ rsa.fn = "strong_rsa_gen"
    /\ LET half == rsa.modulus_bits \div 2
       IN  \E p \in StrongGen(half, rsa.strong_prime), q \in StrongGen(half, rsa.strong_prime) :
             rsa' = StrongGenAfter(strong_rsa_try(p, q, rsa.e, rsa.min_gap_bits))
    /\ UNCHANGED <<attack, ec, oracle>>

\* fermat_factor(n, max_steps) on the modulus of the returned key
\* (the three synthesizers and the attack: SpecRSA below)
CallFermat ==
    /\ rsa.status = "returned"
    /\ attack.status = "idle"
    /\ \E max_steps \in 0 .. MaxSteps :
         attack' = [status |-> "done", n |-> rsa.ret.n, max_steps |-> max_steps,
                    res |-> fermat_factor(rsa.ret.n, max_steps)]
    /\ UNCHANGED <<rsa, ec, oracle>>

NextWeak == CallGenWeakRsa \/ CallFermat

\* the weak synthesizer and the attack on its keys
SpecWeak == Init /\ [][NextWeak]_vars

NextKeys ==
    \/ CallGenWeakRsa
    \/ GenStrongRsaCall
    \/ GenStrongRsaTry
    \/ GenStrongRsaExhausted
    \/ StrongGenCall
    \/ StrongGenTry

\* the three synthesizers
SpecKeys == Init /\ [][NextKeys]_vars

NextRSA ==
    \/ CallGenWeakRsa
    \/ GenStrongRsaCall
    \/ GenStrongRsaTry
    \/ GenStrongRsaExhausted
    \/ StrongGenCall
    \/ StrongGenTry
    \/ CallFermat

SpecRSA == Init /\ [][NextRSA]_vars

\* bound of the oracle's arguments
MaxOracleArg == 1200

\* larger arguments below 2^64: products of two or three primes, and primes
OracleComposites ==
    {BMul(BFromInt(10670053), BFromInt(32010157)),
     BMul(BFromInt(151), BMul(BFromInt(751), BFromInt(28351))),
     BMul(BFromInt(65519), BFromInt(65521))}
OraclePrimes == {BFromInt(65521), BSub(BPow2(32), BFromInt(5)), BSub(BPow2(61), One)}

OracleInputs ==
    {BFromInt(k) : k \in 0 .. MaxOracleArg} \cup OracleComposites \cup OraclePrimes

\* _is_probable_prime_64(n): the whole call
CallIsProbablePrime64 ==
    /\ oracle.status = "idle"
    /\ \E n \in OracleInputs :
         oracle' = [status |-> "done", n |-> n, ret |-> is_probable_prime_64(n)]
    /\ UNCHANGED <<rsa, attack, ec>>

NextOracle == CallIsProbablePrime64

\* the primality oracle on arguments of the caller's choice
SpecOracle == Init /\ [][NextOracle]_vars

\* bound of the direct calls of the Fermat engine
MaxFermatSteps == 8

\* primes for the moduli n = p*q: small ones, 2 among them, the two largest
\* 16-bit primes and the two largest 32-bit primes
FermatPrimes ==
    {BFromInt(k) : k \in {2, 3, 5, 7, 11, 13, 65519, 65521}}
    \cup {BSub(BPow2(32), BFromInt(17)), BSub(BPow2(32), BFromInt(5))}

PrimePairs == {pq \in FermatPrimes \X FermatPrimes : BLt(pq[1], pq[2])}

\* other arguments: 0 .. 20 and the numbers around the 64-bit ceiling
FermatNumbers ==
    {BFromInt(k) : k \in 0 .. 20}
    \cup {BPow2(63), BSub(BPow2(64), One), BPow2(64), BAdd(BPow2(64), One), BPow2(65)}

FermatInputs == {BMul(pq[1], pq[2]) : pq \in PrimePairs} \cup FermatNumbers

\* fermat_factor(n, max_steps) called directly: the whole call
CallFermatFactor ==
    /\ rsa.status = "idle"
    /\ attack.status = "idle"
    /\ \E n \in FermatInputs, max_steps \in 0 .. MaxFermatSteps :
         attack' = [status |-> "done", n |-> n, max_steps |-> max_steps,
                    res |-> fermat_factor(n, max_steps),
                    work |-> fermat_work(n, max_steps)]
    /\ UNCHANGED <<rsa, ec, oracle>>

NextFermat == CallFermatFactor

\* the Fermat engine on arguments of the caller's choice
SpecFermat == Init /\ [][NextFermat]_vars

(***************************************************************************)
(* The properties of the RSA side                                          *)
(***************************************************************************)
\* floor(2^(g/2 - 1)), the step budget that a gap of g bits is to withstand
FermatBudget(g) == CHOOSE s \in 0 .. 2^g : 4 * s * s <= 2^g /\ 2^g < 4 * (s + 1) * (s + 1)

\* C1: for every key returned by gen_weak_rsa(bits, closeness = c) with
\* 8 <= bits <= 64 and c >= 1, fermat_factor(n, max_steps >= c) returns the
\* factors (p, q) with a step count of at most c; it neither raises nor
\* returns None.
C1_WeakKeyFactoredWithinCloseness ==
    (/\ attack.status = "done"
     /\ rsa.fn = "gen_weak_rsa"
     /\ MIN_BITS <= rsa.bits /\ rsa.bits <= MAX_BITS
     /\ rsa.closeness >= 1
     /\ attack.max_steps >= rsa.closeness)
    => /\ attack.res.tag = "found"
       /\ attack.res.p = rsa.ret.p
       /\ attack.res.q = rsa.ret.q
       /\ attack.res.steps <= rsa.closeness

\* the gap in bits that the returned strong key was made to keep: g with
\* min_gap = 2^g, or the min_gap_bits the bit length of |p - q| reaches
EnforcedGapBits ==
    IF rsa.fn = "gen_strong_rsa"
    THEN {g \in 0 .. MaxGapBits : rsa.min_gap = BPow2(g)}
    ELSE IF rsa.fn = "strong_rsa_gen" /\ rsa.min_gap_bits # <<>>
    THEN {rsa.min_gap_bits[1]}
    ELSE {}

\* C2: for every key of a strong synthesizer whose enforced minimum gap is g
\* bits, fermat_factor(n, max_steps = floor(2^(g/2 - 1))) returns NotFound.
C2_StrongKeyResistsFermat ==
    (/\ attack.status = "done"
     /\ \E g \in EnforcedGapBits : attack.max_steps = FermatBudget(g))
    => attack.res.tag = "None"

\* C3: every key record returned by gen_weak_rsa, weak_rsa_gen.gen_strong_rsa
\* and strong_rsa_gen.gen_strong_rsa satisfies n = p*q, and
\* (e*d) mod ((p-1)*(q-1)) = 1 with 0 <= d < (p-1)*(q-1).
C3_KeyRelations ==
    rsa.status = "returned" =>
        LET k == rsa.ret
            phi == BMul(BSub(k.p, One), BSub(k.q, One))
        IN  /\ k.n = BMul(k.p, k.q)
            /\ BMod(BMul(k.e, k.d), phi) = One
            /\ BLt(k.d, phi)

\* C3's case: strong_rsa_gen.gen_strong_rsa returned a key for e = 3 whose d
\* is neither 0 nor 1
C3_Witness ==
    /\ rsa.status = "returned"
    /\ rsa.fn = "strong_rsa_gen"
    /\ rsa.ret.e = BFromInt(3)
    /\ BLt(One, rsa.ret.d)

\* C15: every strong RSA synthesizer call terminates: it returns a key or,
\* after a fixed number of rejected (p, q) pairs, fails with the
\* budget-exhausted error - also when no pair can be accepted (a minimum gap
\* larger than two primes of the requested size can have).
\* A call that terminates has, as long as it runs, a pass of its loop that
\* moves it on: one that returns, raises, or counts a rejected pair against
\* the cap.  A running call none of whose passes changes anything runs for
\* ever.
C15_StrongSynthesizerTerminates ==
    rsa.status = "running" =>
        IF rsa.fn = "gen_strong_rsa"
        THEN rsa.tries <= rsa.max_tries
        ELSE \E p \in StrongGen(rsa.modulus_bits \div 2, rsa.strong_prime),
                q \in StrongGen(rsa.modulus_bits \div 2, rsa.strong_prime) :
                strong_rsa_try(p, q, rsa.e, rsa.min_gap_bits).tag # "continue"

\* k is prime, by trial division
TrialPrime(k) == k >= 2 /\ \A d \in 2 .. (k - 1) : d * d > k \/ k % d # 0

\* n is prime, for the arguments of the oracle
IsPrime(n) ==
    IF n \in OracleComposites THEN FALSE
    ELSE IF n \in OraclePrimes THEN TRUE
    ELSE TrialPrime(BToInt(n))

\* C19: for every n with 0 <= n < 2^64 (over a bounded range),
\* _is_probable_prime_64(n) is true iff n is prime; this includes 0, 1, 2, the
\* small primes, their multiples and squares, and the base-2 pseudoprimes 341
\* and 561.
C19_OracleAgreesWithPrimality ==
    oracle.status = "done" =>
        (BitLength(oracle.n) <= 64 => (oracle.ret <=> IsPrime(oracle.n)))

\* the direct call of the engine has returned or raised
FermatCalled == attack.status = "done" /\ rsa.status = "idle"

\* max_steps > ceil(delta/2) + 1 for delta = q - p, that is
\* delta <= 2*(max_steps - 2)
StepsCoverGap(p, q, max_steps) ==
    max_steps >= 2 /\ BLe(BSub(q, p), BFromInt(2 * (max_steps - 2)))

CeilHalf(d) == (d + 1) \div 2

\* the result is the tuple (p, q, steps) with steps <= ceil((q-p)/2) + 1
FactoredAs(res, p, q) ==
    /\ res.tag = "found"
    /\ res.p = p /\ res.q = q
    /\ BLe(res.p, res.q)
    /\ BMul(res.p, res.q) = BMul(p, q)
    /\ res.steps <= CeilHalf(BToInt(BSub(q, p))) + 1

\* C11 as stated: for n = p*q with p < q primes, n of at most 64 bits and
\* max_steps > ceil((q-p)/2) + 1, fermat_factor(n, max_steps) returns
\* (p, q, steps) with steps <= ceil((q-p)/2) + 1.
C11_ClosePrimesFactored ==
    FermatCalled =>
        \A pq \in PrimePairs :
            (/\ attack.n = BMul(pq[1], pq[2])
             /\ BitLength(attack.n) <= MAX_N_BITS
             /\ StepsCoverGap(pq[1], pq[2], attack.max_steps))
            => FactoredAs(attack.res, pq[1], pq[2])

\* C11 amended: the same for odd primes p < q (for p = 2 the modulus is
\* 2 mod 4, no difference of two squares, and the search returns None).
C11_OddPrimesFactored ==
    FermatCalled =>
        \A pq \in PrimePairs :
            (/\ pq[1] # Two
             /\ attack.n = BMul(pq[1], pq[2])
             /\ BitLength(attack.n) <= MAX_N_BITS
             /\ StepsCoverGap(pq[1], pq[2], attack.max_steps))
            => FactoredAs(attack.res, pq[1], pq[2])

\* C11's case: the product of the 16-bit primes 65519 and 65521 factored
\* with max_steps = 3 > ceil(2/2) + 1
C11_Witness ==
    /\ FermatCalled
    /\ attack.n = BMul(BFromInt(65519), BFromInt(65521))
    /\ attack.max_steps = 3
    /\ attack.res.tag = "found"
    /\ attack.res.p = BFromInt(65519)

\* C13: fermat_factor(n, max_steps) with n of more than 64 bits raises the
\* refusal before math.isqrt and before any pass of the loop, for every
\* max_steps; n of exactly 64 bits is not refused.
C13_RefusedBeforeAnyWork ==
    FermatCalled =>
        /\ BitLength(attack.n) > MAX_N_BITS =>
              /\ attack.res.tag = "ValueError"
              /\ attack.work.isqrt = 0
              /\ attack.work.iterations = 0
        /\ BitLength(attack.n) = MAX_N_BITS =>
              /\ attack.res.tag # "ValueError"
              /\ attack.work.isqrt = 1

\* C13's case: n = 2^64 (65 bits) refused with max_steps = 8
C13_Witness ==
    /\ FermatCalled
    /\ attack.n = BPow2(64)
    /\ attack.max_steps = MaxFermatSteps
    /\ attack.res.tag = "ValueError"

\* C14: when fermat_factor(n, max_steps) runs max_steps passes without a
\* factorization, its not-found result carries the steps attempted
\* (= max_steps) and the elapsed time.
C14_NotFoundCarriesSteps ==
    (FermatCalled /\ attack.res.tag = "None")
    => /\ attack.work.iterations = attack.max_steps
       /\ "steps" \in DOMAIN attack.res
       /\ attack.res.steps = attack.max_steps

(***************************************************************************)
(* The elliptic-curve entry points                                         *)
(***************************************************************************)
\* bounds of the model
MaxBound == 17
MaxSearch == 14

\* the toy curves: a cyclic group of 12 points, a group of prime order 13,
\* and a field prime of 65 bits
Curves == {[p |-> BFromInt(11), a |-> 1, b |-> 0], [p |-> BFromInt(11), a |-> 1, b |-> 6]}
HugeCurve == [p |-> BPow2(MAX_FIELD_BITS), a |-> 1, b |-> 1]

PointsTable == [curve \in Curves |-> PointsOf(curve)]
InputPoints(curve) == IF curve \in Curves THEN PointsTable[curve] ELSE {INFINITY, <<1, 1>>}

\* find_point_order(curve, P, max_search): the whole call
CallFindPointOrder ==
    /\ ec.status = "idle"
    /\ \E curve \in Curves \cup {HugeCurve}, max_search \in 0 .. MaxSearch :
         \E P \in InputPoints(curve) :
            ec' = [status |-> "done", fn |-> "find_point_order", curve |-> curve, P |-> P,
                   max_search |-> max_search,
                   ret |-> find_point_order(curve, P, max_search)]
    /\ UNCHANGED <<rsa, attack, oracle>>

\* _order_naive(P, max_steps, max_seconds): the whole call
CallOrderNaive ==
    /\ ec.status = "idle"
    /\ \E curve \in Curves, max_steps \in 0 .. MaxSearch :
         \E P \in InputPoints(curve) :
            \E r \in order_naive(curve, P, max_steps) :
               ec' = [status |-> "done", fn |-> "_order_naive", curve |-> curve, P |-> P,
                      max_steps |-> max_steps, ret |-> r]
    /\ UNCHANGED <<rsa, attack, oracle>>

DlogBounds == (0 .. MaxBound) \cup {BSGS_MAX_BOUND + 1}

\* brute_force_dlog(curve, G, Q, order_bound): the whole call, on fresh
\* arguments or on those of the BSGS call before it
CallBruteForceDlog ==
    /\ \/ /\ ec.status = "idle"
          /\ \E curve \in Curves \cup {HugeCurve}, order_bound \in 0 .. MaxBound :
               \E G \in InputPoints(curve), Q \in InputPoints(curve) :
                  ec' = [status |-> "done", fn |-> "dlog", curve |-> curve, G |-> G, Q |-> Q,
                         order_bound |-> order_bound,
                         bf |-> brute_force_dlog(curve, G, Q, order_bound),
                         bsgs |-> NotRun]
       \/ /\ ec.status = "done" /\ ec.fn = "dlog" /\ ec.bf = NotRun
          /\ ec.order_bound <= MaxBound
          /\ ec' = [ec EXCEPT !.bf = brute_force_dlog(ec.curve, ec.G, ec.Q, ec.order_bound)]
    /\ UNCHANGED <<rsa, attack, oracle>>

\* bsgs_dlog(curve, G, Q, order_bound): the whole call, on fresh arguments or
\* on those of the brute-force call before it
CallBsgsDlog ==
    /\ \/ /\ ec.status = "idle"
          /\ \E curve \in Curves \cup {HugeCurve}, order_bound \in DlogBounds :
               \E G \in InputPoints(curve), Q \in InputPoints(curve) :
                  ec' = [status |-> "done", fn |-> "dlog", curve |-> curve, G |-> G,
                         Q |-> Q, order_bound |-> order_bound, bf |-> NotRun,
                         bsgs |-> bsgs_dlog(curve, G, Q, order_bound)]
       \/ /\ ec.status = "done" /\ ec.fn = "dlog" /\ ec.bsgs = NotRun
          /\ ec' = [ec EXCEPT !.bsgs = bsgs_dlog(ec.curve, ec.G, ec.Q, ec.order_bound)]
    /\ UNCHANGED <<rsa, attack, oracle>>

\* bsgs_dlog(curve, G, Q, order_bound) at the ceiling and one above it
CallBsgsDlogAtCeiling ==
    /\ ec.status = "idle"
    /\ \E curve \in Curves \cup {HugeCurve},
          order_bound \in {BSGS_MAX_BOUND, BSGS_MAX_BOUND + 1} :
         \E G \in InputPoints(curve), Q \in InputPoints(curve) :
            ec' = [status |-> "done", fn |-> "bsgs_dlog", curve |-> curve, G |-> G,
                   Q |-> Q, order_bound |-> order_bound,
                   ret |-> bsgs_dlog(curve, G, Q, order_bound)]
    /\ UNCHANGED <<rsa, attack, oracle>>

\* the bounds analyze_point is called with
AnalyzeSearches == {0, 3, MaxSearch}
AnalyzeBounds == {0, 1, 5, MaxBound, BSGS_MAX_BOUND + 1}

\* analyze_point(curve, G, Q, order_search, dlog_bound): the whole call
CallAnalyzePoint ==
    /\ ec.status = "idle"
    /\ \E curve \in Curves \cup {HugeCurve}, order_search \in AnalyzeSearches,
          dlog_bound \in AnalyzeBounds :
         \E G \in InputPoints(curve), Q \in InputPoints(curve) :
            ec' = [status |-> "done", fn |-> "analyze_point", curve |-> curve, G |-> G,
                   Q |-> Q, order_search |-> order_search, dlog_bound |-> dlog_bound,
                   ret |-> analyze_point(curve, G, Q, order_search, dlog_bound)]
    /\ UNCHANGED <<rsa, attack, oracle>>

\* brute_force_d_mod_r(curve, G, Q, r_limit): the whole call
CallBruteForceDModR ==
    /\ ec.status = "idle"
    /\ \E curve \in Curves \cup {HugeCurve}, r_limit \in 0 .. MaxBound :
         \E G \in InputPoints(curve), Q \in InputPoints(curve) :
            ec' = [status |-> "done", fn |-> "brute_force_d_mod_r", curve |-> curve,
                   G |-> G, Q |-> Q, r_limit |-> r_limit,
                   ret |-> brute_force_d_mod_r(curve, G, Q, r_limit)]
    /\ UNCHANGED <<rsa, attack, oracle>>

NextEC ==
    \/ CallFindPointOrder
    \/ CallOrderNaive
    \/ CallBruteForceDlog
    \/ CallBsgsDlog
    \/ CallBsgsDlogAtCeiling
    \/ CallAnalyzePoint
    \/ CallBruteForceDModR

SpecEC == Init /\ [][NextEC]_vars

(***************************************************************************)
(* The toy EC key synthesizer                                              *)
(***************************************************************************)
\* make_toy_curve_and_key(difficulty, prefer_prime, min_r, max_r) up to the
\* while loop
CallMakeToy ==
    /\ ec.status = "idle"
    /\ \E difficulty \in ToyDifficulties, prefer_prime \in BOOLEAN,
          min_r \in ToyMinR, max_r \in ToyMaxR :
         ec' = [status |-> "running", fn |-> "make_toy_curve_and_key",
                difficulty |-> difficulty, prefer_prime |-> prefer_prime,
                min_r |-> min_r, max_r |-> max_r,
                lo |-> Override(min_r, presets(difficulty)[1]),
                hi |-> Override(max_r, presets(difficulty)[2]),
                tries |-> 0]
    /\ UNCHANGED <<rsa, attack, oracle>>

\* the arguments of the running call
ToyArgs ==
    [fn |-> ec.fn, difficulty |-> ec.difficulty, prefer_prime |-> ec.prefer_prime,
     min_r |-> ec.min_r, max_r |-> ec.max_r, lo |-> ec.lo, hi |-> ec.hi]

\* one pass of the while loop: it goes round again or returns the dict
ToyTry ==
    /\ ec.status = "running" /\ ec.fn = "make_toy_curve_and_key"
    /\ \E expired \in BOOLEAN : ToyLoopGoesOn(ec.tries, expired)
    /\ \E res \in ToyPassTable[<<ec.lo, ec.hi>>, ec.prefer_prime] :
          ec' = IF res.tag = "continue" THEN [ec EXCEPT !.tries = @ + 1]
                ELSE ToyArgs @@ [status |-> "done", ret |-> res]
    /\ UNCHANGED <<rsa, attack, oracle>>

\* the loop ends on MAX_TRIES or on the overall deadline; the catalog is
\* empty, so the call raises RuntimeError
ToyGiveUp ==
    /\ ec.status = "running" /\ ec.fn = "make_toy_curve_and_key"
    /\ \E expired \in BOOLEAN : ~ToyLoopGoesOn(ec.tries, expired)
    /\ ec' = [ec EXCEPT !.status = "done"] @@ [ret |-> [tag |-> "RuntimeError"]]
    /\ UNCHANGED <<rsa, attack, oracle>>

NextToy ==
    \/ CallMakeToy
    \/ ToyTry
    \/ ToyGiveUp

SpecToy == Init /\ [][NextToy]_vars

(***************************************************************************)
(* The properties of the elliptic-curve side                               *)
(***************************************************************************)
\* the exact order of P: the least r >= 1 with r*P the identity
ExactOrder(curve, P) ==
    CHOOSE r \in 1 .. (2 * FieldP(curve) + 2) :
        /\ PointMul(curve, r, P) = INFINITY
        /\ \A k \in 1 .. (r - 1) : PointMul(curve, k, P) # INFINITY

\* the k of S with k*G = Q
Solutions(curve, G, Q, S) == {k \in S : PointMul(curve, k, G) = Q}

Least(S) == CHOOSE k \in S : \A l \in S : k <= l

\* m is ceil(sqrt(n))
IsCeilSqrt(m, n) == m >= 0 /\ m * m >= n /\ (m = 0 \/ (m - 1) * (m - 1) < n)

\* both solvers ran on (G, Q, bound) over a toy curve
BothRan ==
    /\ ec.status = "done" /\ ec.fn = "dlog" /\ ec.curve \in Curves
    /\ ec.bf # NotRun /\ ec.bsgs # NotRun

\* bsgs_dlog returned, found or not
BsgsReturned ==
    /\ ec.status = "done" /\ ec.fn = "dlog" /\ ec.curve \in Curves
    /\ ec.bsgs # NotRun /\ ec.bsgs.tag \in {"found", "None"}

\* C4: for G, Q and 0 < bound <= 200000 with some k < bound solving k*G = Q,
\* brute_force_dlog and bsgs_dlog return the same k, also when the order of G
\* is smaller than ceil(sqrt(bound)).
C4_SolversAgree ==
    (/\ BothRan
     /\ 0 < ec.order_bound /\ ec.order_bound <= BSGS_MAX_BOUND
     /\ Solutions(ec.curve, ec.G, ec.Q, 0 .. (ec.order_bound - 1)) # {})
    => /\ ec.bf.tag = "found"
       /\ ec.bsgs.tag = "found"
       /\ ec.bf.k = ec.bsgs.k

\* C5: whenever bsgs_dlog(G, Q, bound) returns, the table size it reports is
\* ceil(sqrt(bound)) exactly, for every G.
C5_TableSizeIsCeilSqrt ==
    BsgsReturned => IsCeilSqrt(ec.bsgs.memory, ec.order_bound)

OrderFinderReturned ==
    /\ ec.status = "done" /\ ec.fn = "find_point_order" /\ ec.curve \in Curves
    /\ ec.P # INFINITY

\* C8: on a non-identity P of exact order r, find_point_order finds the order
\* iff r <= max_search (r = max_search is found), and returns None with
\* steps = max_search when r = max_search + 1.
C8_OrderFoundUpToMaxSearch ==
    OrderFinderReturned =>
        LET r == ExactOrder(ec.curve, ec.P)
        IN  /\ ec.ret.tag = "found" <=> r <= ec.max_search
            /\ ec.ret.tag = "found" => ec.ret.order = r
            /\ r = ec.max_search + 1 => (ec.ret.tag = "None" /\ ec.ret.steps = ec.max_search)

\* C8's case: the order equals max_search and is found
C8_Witness ==
    /\ OrderFinderReturned
    /\ ec.max_search >= 3
    /\ ExactOrder(ec.curve, ec.P) = ec.max_search
    /\ ec.ret.tag = "found"

\* C9: a number r returned by find_point_order or _order_naive for P is the
\* exact order of P; order 1 is returned only for the identity, with 0 steps,
\* and a point with 2P the identity is reported as order 2.
C9_ReturnedOrderIsExact ==
    (/\ ec.status = "done" /\ ec.fn \in {"find_point_order", "_order_naive"}
     /\ ec.curve \in Curves /\ ec.ret.tag = "found")
    => /\ PointMul(ec.curve, ec.ret.order, ec.P) = INFINITY
       /\ \A k \in 1 .. (ec.ret.order - 1) : PointMul(ec.curve, k, ec.P) # INFINITY
       /\ ec.ret.order = 1 => ec.P = INFINITY
       /\ (ec.ret.order = 1 /\ ec.fn = "find_point_order") => ec.ret.steps = 0
       /\ (ec.P # INFINITY /\ PointDouble(ec.curve, ec.P) = INFINITY) => ec.ret.order = 2

\* C9's case: _order_naive returned 2 for a point with 2P the identity
C9_Witness ==
    /\ ec.status = "done" /\ ec.fn = "_order_naive"
    /\ ec.P # INFINITY /\ PointDouble(ec.curve, ec.P) = INFINITY
    /\ ec.ret.tag = "found" /\ ec.ret.order = 2

\* brute_force_dlog ran on (G, Q, bound) over a toy curve
BruteReturned ==
    /\ ec.status = "done" /\ ec.fn = "dlog" /\ ec.curve \in Curves
    /\ ec.bf # NotRun

\* the order-13 scenario: G of order 13, the secret d = 7, the bound r = 13
Order13Scenario ==
    /\ BruteReturned
    /\ ExactOrder(ec.curve, ec.G) = 13
    /\ ec.Q = PointMul(ec.curve, 7, ec.G)
    /\ ec.order_bound = 13

EntryResults ==
    IF ec.fn = "dlog" THEN {ec.bf, ec.bsgs} \ {NotRun} ELSE {ec.ret}

\* C12: when the field prime has more than 64 bits (bit length 65), every EC
\* entry point - find_point_order, brute_force_dlog, bsgs_dlog, analyze_point
\* and brute_force_d_mod_r - fails with the field-too-large error before any
\* loop iteration or point addition (steps = 0).
C12_LargeFieldRefusedEverywhere ==
    (ec.status = "done" /\ field_too_large(ec.curve))
    => \A r \in EntryResults : r.tag = "SafetyError" /\ r.steps = 0

\* analyze_point returned a report
Reported == ec.status = "done" /\ ec.fn = "analyze_point" /\ ec.ret.tag = "report"

\* the indices of the messages of the given kinds, in the report
MessageAt(out, kinds) == {i \in 1 .. Len(out.messages) : out.messages[i] \in kinds}

GoodDeltas == {d \in 1 .. rsa.closeness : Qualifies(rsa.draw, d)}

\* C20: gen_weak_rsa(bits, closeness) returns q = p + delta for the smallest
\* delta in [1, closeness] such that q passes the primality check,
\* gcd(p, q) = 1 and gcd(65537, (p-1)(q-1)) = 1, so 0 < q - p <= closeness;
\* if no delta qualifies (closeness <= 1 included) it fails with the
\* no-candidate error and returns no key.
C20_SmallestQualifyingDelta ==
    (rsa.status \in {"returned", "raised"} /\ rsa.fn = "gen_weak_rsa") =>
        /\ GoodDeltas # {} =>
              /\ rsa.status = "returned"
              /\ rsa.ret.p = rsa.draw
              /\ rsa.ret.q = BAdd(rsa.draw, BFromInt(Least(GoodDeltas)))
              /\ BLt(rsa.ret.p, rsa.ret.q)
              /\ BLe(BSub(rsa.ret.q, rsa.ret.p), BFromInt(rsa.closeness))
        /\ GoodDeltas = {} => (rsa.status = "raised" /\ rsa.ret.tag = "RuntimeError")
        /\ rsa.closeness <= 1 => rsa.status = "raised"

\* C20's case: delta = 2 does not qualify and the key has q = p + 4
C20_Witness ==
    /\ rsa.status = "returned" /\ rsa.fn = "gen_weak_rsa"
    /\ rsa.closeness = 4
    /\ rsa.ret.q = BAdd(rsa.ret.p, BFromInt(4))
\* C18: bsgs_dlog refuses a field of more than 64 bits on account of the field,
\* whatever the bound; on an admissible field it refuses every bound above
\* 200000 on account of the bound, with no step taken and no baby-step table;
\* the bound 200000 itself is accepted and the search runs
BsgsCalls ==
    IF ec.status # "done" THEN {}
    ELSE IF ec.fn = "bsgs_dlog" THEN {ec.ret}
    ELSE IF ec.fn = "dlog" /\ ec.bsgs # NotRun THEN {ec.bsgs}
    ELSE {}

C18_BoundCeilingAfterFieldCheck ==
    \A b \in BsgsCalls :
       IF field_too_large(ec.curve)
       THEN b.tag = "SafetyError" /\ b.why = "field" /\ b.steps = 0
                /\ "memory" \notin DOMAIN b
       ELSE IF ec.order_bound > BSGS_MAX_BOUND
       THEN b.tag = "SafetyError" /\ b.why = "order_bound" /\ b.steps = 0
                /\ "memory" \notin DOMAIN b
       ELSE b.tag \in {"found", "None"}
                /\ b.memory = Cardinality({PointMul(ec.curve, j, ec.G) :
                                             j \in 0 .. CeilSqrt(ec.order_bound) - 1})

\* C18 witness: a search at the bound 200000 ran and found the logarithm with a
\* table of the 13 points of the group
C18_Witness ==
    /\ ec.status = "done" /\ ec.fn = "bsgs_dlog"
    /\ ec.order_bound = BSGS_MAX_BOUND
    /\ ec.ret.tag = "found" /\ ec.ret.memory = 13 /\ ec.ret.k > 0

\* make_toy_curve_and_key returned a record
ToyReturned ==
    /\ ec.status = "done" /\ ec.fn = "make_toy_curve_and_key"
    /\ ec.ret.tag \notin {"RuntimeError"}

\* k*G is not the identity for any 0 < k < r
NoSmallerMultiple(G, r) == \A k \in 1 .. (r - 1) : PointMul(ToyCurve, k, G) # INFINITY

\* C16: every record returned by make_toy_curve_and_key has (Gx, Gy) a point
\* of the curve, not the identity, of exact order r (r*G is the identity and
\* no k*G with 0 < k < r is), lo <= r <= hi for the selected band, the secret
\* d in [1, r-1] and (Qx, Qy) = d*G; with prefer_prime set, r is prime
C16_ToyRecordInvariants ==
    ToyReturned =>
       /\ ec.ret.tag = "key"
       /\ ec.ret.Gx \in 0 .. (TOY_P - 1) /\ ec.ret.Gy \in 0 .. (TOY_P - 1)
       /\ (ec.ret.Gy * ec.ret.Gy) % TOY_P = ToyRhs(ec.ret.Gx)
       /\ PointMul(ToyCurve, ec.ret.r, <<ec.ret.Gx, ec.ret.Gy>>) = INFINITY
       /\ NoSmallerMultiple(<<ec.ret.Gx, ec.ret.Gy>>, ec.ret.r)
       /\ Override(ec.min_r, presets(ec.difficulty)[1]) <= ec.ret.r
       /\ ec.ret.r <= Override(ec.max_r, presets(ec.difficulty)[2])
       /\ ec.ret.d \in 1 .. (ec.ret.r - 1)
       /\ <<ec.ret.Qx, ec.ret.Qy>> = PointMul(ToyCurve, ec.ret.d, <<ec.ret.Gx, ec.ret.Gy>>)
       /\ ec.prefer_prime => TrialPrime(ec.ret.r)

\* C16 witness: a prime-preferring call on the band 20..120 returned a
\* generator of order 71 with the secret d = 70
C16_Witness ==
    /\ ToyReturned /\ ec.ret.tag = "key"
    /\ ec.prefer_prime /\ ec.lo = 20 /\ ec.hi = 120
    /\ ec.ret.r = 71 /\ ec.ret.d = 70

\* p is a prime of bit length exactly bits
PrimeOfBits(p, bits) == BitLength(p) = bits /\ BIsEven(p) = FALSE /\ IsPrime(p)

\* the primes a synthesizer call shows: the p that gen_prime gave
\* gen_weak_rsa, and the p and q of a key returned by a strong synthesizer,
\* each with the bit length that was asked of the generator
HandedPrimes ==
    IF rsa.status = "idle" THEN {}
    ELSE IF rsa.fn = "gen_weak_rsa" THEN {<<rsa.draw, rsa.bits>>}
    ELSE IF rsa.status # "returned" THEN {}
    ELSE IF rsa.fn = "gen_strong_rsa" THEN {<<rsa.ret.p, rsa.bits>>, <<rsa.ret.q, rsa.bits>>}
    ELSE {<<rsa.ret.p, rsa.modulus_bits \div 2>>, <<rsa.ret.q, rsa.modulus_bits \div 2>>}

\* C21: every prime the generators hand to a synthesizer for a request of
\* bits bits, 8 <= bits <= 64, is odd, prime and of bit length exactly bits:
\* the p of gen_prime inside gen_weak_rsa, and the primes of gen_prime_mr
\* and of strong_rsa_gen._gen_prime
C21_GeneratedPrimesExactBits ==
    \A h \in HandedPrimes :
       (MIN_BITS <= h[2] /\ h[2] <= MAX_BITS) => PrimeOfBits(h[1], h[2])

\* C22: every key returned by a strong synthesizer has p # q and keeps the
\* requested separation: weak_rsa_gen.gen_strong_rsa(bits, min_gap) returns
\* |p - q| >= min_gap, and strong_rsa_gen.gen_strong_rsa with
\* min_gap_bits = g returns |p - q| >= 2^g
C22_StrongKeysKeepMinimumGap ==
    (rsa.status = "returned" /\ rsa.fn \in {"gen_strong_rsa", "strong_rsa_gen"})
    => /\ rsa.ret.p # rsa.ret.q
       /\ rsa.fn = "gen_strong_rsa"
             => BLe(rsa.min_gap, BAbsDiff(rsa.ret.p, rsa.ret.q))
       /\ (rsa.fn = "strong_rsa_gen" /\ rsa.min_gap_bits # <<>>)
             => BLe(BPow2(rsa.min_gap_bits[1]), BAbsDiff(rsa.ret.p, rsa.ret.q))

\* a call of make_toy_curve_and_key is running
ToyRunning == ec.status = "running" /\ ec.fn = "make_toy_curve_and_key"

\* for each cap of the order search: no search on a point that can be drawn
\* makes more additions than the cap, whatever pass its wall-clock test fires at
ToyAddsWithin ==
    [cap \in ToyCaps |->
        \A P \in rand_point_on_curve(RAND_POINT_TRIES) \ {NoPoint} :
           \A o \in ToyOrderTable[P, cap] : o.adds <= cap]

\* the budgets of a call: the attempts counted stay within MAX_TRIES, every
\* order search of a pass makes at most max(hi + 100, 600) additions, and the
\* call ends with the timed-out error or with a whole key
ToyBudgetsKept ==
    (ec.status # "idle" /\ ec.fn = "make_toy_curve_and_key")
    => /\ "tries" \in DOMAIN ec => ec.tries <= MAX_TRIES
       /\ PER_TRY_STEPS(ec.hi) = (IF ec.hi + 100 >= 600 THEN ec.hi + 100 ELSE 600)
       /\ ToyAddsWithin[PER_TRY_STEPS(ec.hi)]
       /\ ec.status = "done"
             => \/ ec.ret.tag = "RuntimeError"
                \/ /\ ec.ret.tag = "key"
                   /\ {"p", "a", "b", "Gx", "Gy", "r", "d", "Qx", "Qy"} \subseteq DOMAIN ec.ret

\* a step of a running call is one more attempt or the end of the call, and
\* after MAX_TRIES attempts it is the timed-out error
ToyProgress ==
    ToyRunning
    => /\ \/ ec'.status = "running" /\ ec'.tries = ec.tries + 1
          \/ ec'.status = "done"
       /\ ec.tries >= MAX_TRIES => (ec'.status = "done" /\ ec'.ret.tag = "RuntimeError")

\* C23: make_toy_curve_and_key always terminates: the sampling loop makes at
\* most 2000 attempts, each order search makes at most max(hi + 100, 600)
\* point additions, and a call that accepts no point ends with the timed-out
\* error, neither looping nor returning a partial key.  Termination is by the
\* variant MAX_TRIES - tries: every step of a running call ends it or adds
\* one to tries, tries never exceeds MAX_TRIES, and at MAX_TRIES the only
\* step is the end of the call
C23_ToyCallTerminates ==
    /\ []ToyBudgetsKept
    /\ [][ToyProgress]_vars

\* C23 witness: a call made all its 2000 attempts without accepting a point
\* and ended with the timed-out error
C23_Witness ==
    /\ ec.status = "done" /\ ec.fn = "make_toy_curve_and_key"
    /\ ec.ret.tag = "RuntimeError" /\ ec.tries = MAX_TRIES

====
